---- MODULE Spec2Model ----
(***************************************************************************)
(* Model of the remindergram reminder bot (src/bot.py, src/scheduler.py,   *)
(* src/models.py).                                                         *)
(*                                                                         *)
(* State: the three tables of the record store (reminders, events,         *)
(* responses), the APScheduler job stores (one-shot timers keyed           *)
(* "reminder_<id>", anonymous jobs queued by the periodic scan), the       *)
(* per-user conversational state (context.user_data), the notifications    *)
(* in flight, and the wall clock.                                          *)
(*                                                                         *)
(* Time is counted in minutes.  Telegram updates are processed one at a    *)
(* time by the Application (concurrent_updates is left at its default),    *)
(* so a message or button handler never interleaves with another one;      *)
(* scheduler jobs run as separate tasks and interleave with handlers at    *)
(* their await points.  Each handler reads and writes the store without an *)
(* await in between, hence one action per handler; send_reminder_job       *)
(* awaits the Telegram send after its commit, hence two steps.             *)
(* Record store I/O is taken to succeed.                                   *)
(***************************************************************************)
EXTENDS Integers, Sequences, FiniteSets, TLC

(* ----------------------------- bounds --------------------------------- *)
MaxReminders == 1
MaxEvents == 2
MaxResponses == 1
MaxScanJobs == 1
MaxNow == 1
MaxCalcTime == 5
MaxStoreReminders == 2

(* timedelta(days=1) in minutes *)
MinutesPerDay == 1440
(* timedelta(weeks=1) in days *)
DaysPerWeek == 7
(* timedelta(days=30) *)
DaysPerMonth == 30

Users == {1, 2}
(* the users who create reminders; the others only act on them *)
Creators == {1}

(* Python None / a present value *)
None == << >>
Some(x) == << x >>

(* ----------------------------- strings -------------------------------- *)
(* A str is a sequence of one-character strings; str.lower() maps it       *)
(* character by character.                                                 *)
UpperChars == <<"A", "D", "E", "I", "K", "L", "M", "N", "O", "R", "T", "U", "W", "Y", "H">>
LowerChars == <<"a", "d", "e", "i", "k", "l", "m", "n", "o", "r", "t", "u", "w", "y", "h">>

LowerChar(c) ==
    IF \E i \in 1..Len(UpperChars) : UpperChars[i] = c
    THEN LowerChars[CHOOSE i \in 1..Len(UpperChars) : UpperChars[i] = c]
    ELSE c

Lower(s) == [i \in 1..Len(s) |-> LowerChar(s[i])]

StrEmpty == << >>
StrDaily == <<"d", "a", "i", "l", "y">>
StrDailyCap == <<"D", "a", "i", "l", "y">>
StrDailyUpper == <<"D", "A", "I", "L", "Y">>
StrWeekly == <<"w", "e", "e", "k", "l", "y">>
StrWeeklyCap == <<"W", "e", "e", "k", "l", "y">>
StrMonthly == <<"m", "o", "n", "t", "h", "l", "y">>
StrMonthlyUpper == <<"M", "O", "N", "T", "H", "L", "Y">>
StrHourly == <<"h", "o", "u", "r", "l", "y">>
StrYearly == <<"y", "e", "a", "r", "l", "y">>
StrNone == <<"n", "o", "n", "e">>
StrNull == <<"n", "u", "l", "l">>
StrRRule == <<"R", "R", "U", "L", "E", ":", "F", "R", "E", "Q", "=", "W", "E", "E", "K", "L", "Y">>

(* ----------------------------- state ---------------------------------- *)
VARIABLES
    now,            \* datetime.datetime.utcnow(), in minutes
    running,        \* main() has started the scheduler and the polling loop
    responses_check,\* the responses table carries CHECK(response IN (...))
    reminders,      \* table reminders; the id of a row is its index
    events,         \* table events
    responses,      \* table responses
    timers,         \* scheduler jobs "reminder_<id>": id -> run_date
    scan_jobs,      \* jobs queued by scan_and_queue: id -> how many
    user_data,      \* context.user_data: user -> awaited snooze, or None
    outbox,         \* event ids whose send_message is awaited
    fired_count,    \* history: id -> Events written since its trigger instant last changed
    last,           \* history: the operation that ran last
    calc            \* a call of compute_next_occurrence and its result

dbvars == <<reminders, events, responses>>
vars == <<now, running, responses_check, reminders, events, responses, timers,
          scan_jobs, user_data, outbox, fired_count, last, calc>>

ReminderIds == 1..MaxReminders
Rows == 1..Len(reminders)

(* last: the handler or job that ran, the user who called it (0: a job), the *)
(* reminder id it was given or found                                         *)
(* (0: none), how it ended ("ok" or the branch that refused), and, for a     *)
(* snooze-resolve, the instant asked for.  A text message that a handler     *)
(* answers without touching the store is recorded as "message"/"refused".    *)
Op(o, u, r, res, d) == [op |-> o, user |-> u, rid |-> r, res |-> res, dt |-> d]
NoOp == Op("init", 0, 0, "ok", 0)

NoCalc == [last_dt |-> 0, recur_rule |-> None, result |-> None, done |-> FALSE]

(* -------------------- compute_next_occurrence ------------------------- *)
compute_next_occurrence_month31(last_dt, recur_rule) ==
    IF recur_rule = None \/ recur_rule[1] = StrEmpty THEN None
    ELSE IF Lower(recur_rule[1]) = StrDaily THEN Some(last_dt + MinutesPerDay)
    ELSE IF Lower(recur_rule[1]) = StrWeekly THEN Some(last_dt + DaysPerWeek * MinutesPerDay)
    ELSE IF Lower(recur_rule[1]) = StrMonthly THEN Some(last_dt + (DaysPerMonth + 1) * MinutesPerDay)
    ELSE None

compute_next_occurrence(last_dt, recur_rule) ==
    IF recur_rule = None \/ recur_rule[1] = StrEmpty THEN None
    ELSE IF Lower(recur_rule[1]) = StrDaily THEN Some(last_dt + MinutesPerDay)
    ELSE IF Lower(recur_rule[1]) = StrWeekly THEN Some(last_dt + DaysPerWeek * MinutesPerDay)
    ELSE IF Lower(recur_rule[1]) = StrMonthly THEN Some(last_dt + DaysPerMonth * MinutesPerDay)
    ELSE None

(* bool(recurrence and recurrence.lower() not in ("", "none", "null")) *)
IsRecurring(recurrence) ==
    /\ recurrence # None
    /\ recurrence[1] # StrEmpty
    /\ Lower(recurrence[1]) \notin {StrEmpty, StrNone, StrNull}

(* ------------------------ schedule_reminder --------------------------- *)
(* The job store after schedule_reminder(row) at wall-clock nw.            *)
schedule_reminder_inverted(tm, rid, trigger_time, nw) ==
    IF trigger_time > nw THEN tm
    ELSE [tm EXCEPT ![rid] = Some(trigger_time)]

schedule_reminder(tm, rid, trigger_time, nw) ==
    IF trigger_time < nw THEN tm
    ELSE [tm EXCEPT ![rid] = Some(trigger_time)]

RECURSIVE ScheduleRows(_, _, _)
ScheduleRows(tm, rows, nw) ==
    IF rows = {} THEN tm
    ELSE LET r == CHOOSE x \in rows : TRUE
         IN ScheduleRows(schedule_reminder(tm, r, reminders[r].next_trigger_utc, nw),
                         rows \ {r}, nw)

(* schedule_all_reminders: the rows its SELECT returns *)
RowsToSchedule == {r \in Rows : reminders[r].status = "pending"
                                /\ reminders[r].next_trigger_utc > now}

NoTimers == [r \in ReminderIds |-> None]
NoScanJobs == [r \in ReminderIds |-> 0]
NoUserData == [u \in Users |-> None]

(* ------------------------------ Init ---------------------------------- *)
InitStore ==
    /\ now = 0
    /\ running = FALSE
    /\ responses_check \in BOOLEAN
    /\ reminders = << >>
    /\ events = << >>
    /\ responses = << >>
    /\ timers = NoTimers
    /\ scan_jobs = NoScanJobs
    /\ user_data = NoUserData
    /\ outbox = {}
    /\ fired_count = [r \in ReminderIds |-> 0]
    /\ last = NoOp

Init == InitStore /\ calc = NoCalc

(* ------------------------ process life cycle -------------------------- *)
(* main(): schedule_all_reminders(), scheduler.start(), run_polling *)
Start ==
    /\ ~running
    /\ running' = TRUE
    /\ timers' = ScheduleRows(NoTimers, RowsToSchedule, now)
    /\ last' = Op("start", 0, 0, "ok", 0)
    /\ UNCHANGED <<now, responses_check, dbvars, scan_jobs, user_data, outbox,
                   fired_count, calc>>

(* The process stops or crashes: everything held in memory is lost. *)
Crash ==
    /\ running
    /\ running' = FALSE
    /\ timers' = NoTimers
    /\ scan_jobs' = NoScanJobs
    /\ user_data' = NoUserData
    /\ outbox' = {}
    /\ last' = Op("crash", 0, 0, "ok", 0)
    /\ UNCHANGED <<now, responses_check, dbvars, fired_count, calc>>

Tick ==
    /\ now < MaxNow
    /\ now' = now + 1
    /\ last' = Op("tick", 0, 0, "ok", 0)
    /\ UNCHANGED <<running, responses_check, dbvars, timers, scan_jobs, user_data,
                   outbox, fired_count, calc>>

(* --------------------------- handler inputs --------------------------- *)
(* What parse_reminder returns, as far as the handlers look at it: an       *)
(* {"error": ...} variant, a datetime_iso that fromisoformat rejects, or a  *)
(* datetime_iso (already normalised to naive UTC) with a recurrence.  The    *)
(* instants are absolute: one that is never in the future, one that is not  *)
(* in the past until the clock stops, and for a snooze one that is more     *)
(* than a day after any clock value.                                        *)
Instants == {0, MaxNow}
FarInstant == MaxNow + MinutesPerDay + 1
Recurrences == {None, Some(StrDaily), Some(StrHourly)}

ParseError == [error |-> TRUE, iso_ok |-> TRUE, dt |-> 0, recurrence |-> None]
ParseBadTime == [error |-> FALSE, iso_ok |-> FALSE, dt |-> 0, recurrence |-> None]
ParseOk(d, rc) == [error |-> FALSE, iso_ok |-> TRUE, dt |-> d, recurrence |-> rc]

Parsed == {ParseError, ParseBadTime}
            \cup {ParseOk(d, rc) : d \in Instants, rc \in Recurrences}
SnoozeParsed == {ParseError, ParseBadTime}
                  \cup {ParseOk(d, None) : d \in Instants \cup {FarInstant}}

(* The reminders whose text occurs in a message: any non-empty set of ids. *)
Mentions == (SUBSET ReminderIds) \ {{}}

Min(S) == CHOOSE x \in S : \A y \in S : x <= y

(* SELECT ... WHERE user_id=? AND status='pending', in id order, then the   *)
(* first row whose text the message contains (0 if none).                   *)
FirstMatch(u, m) ==
    LET rows == {r \in Rows : reminders[r].user_id = u
                              /\ reminders[r].status = "pending" /\ r \in m}
    IN IF rows = {} THEN 0 ELSE Min(rows)

(* History only: an Event written for r counts for r; a write that changes  *)
(* r's trigger instant starts r's count again.                              *)
FiredCountStep ==
    fired_count' = [r \in ReminderIds |->
        IF r \in Rows /\ reminders'[r].next_trigger_utc # reminders[r].next_trigger_utc
        THEN 0
        ELSE IF Len(events') > Len(events) /\ events'[Len(events')].reminder_id = r
        THEN fired_count[r] + 1
        ELSE fired_count[r]]

(* ------------------------- send_reminder_job -------------------------- *)
(* SELECT * FROM reminders WHERE id=? AND status='pending' *)
DispatchRowAnyStatus(rid) == rid \in Rows

DispatchRow(rid) == rid \in Rows /\ reminders[rid].status = "pending"

(* Lines 155-169: the row is loaded, the Event inserted and committed;      *)
(* the send is then awaited (outbox).  The Reminder row is not written.     *)
send_reminder_job(rid) ==
    IF DispatchRow(rid)
    THEN /\ Len(events) < MaxEvents
         /\ events' = Append(events, [reminder_id |-> rid])
         /\ outbox' = outbox \cup {Len(events) + 1}
         /\ last' = Op("dispatch", 0, rid, "ok", 0)
         /\ UNCHANGED <<reminders, responses>>
    ELSE /\ last' = Op("dispatch", 0, rid, "no_row", 0)
         /\ UNCHANGED <<dbvars, outbox>>

(* The one-shot DateTrigger job "reminder_<id>" runs and is removed. *)
TimerFire(rid) ==
    /\ running
    /\ timers[rid] # None
    /\ timers[rid][1] <= now
    /\ timers' = [timers EXCEPT ![rid] = None]
    /\ send_reminder_job(rid)
    /\ UNCHANGED <<now, running, responses_check, scan_jobs, user_data, calc>>
    /\ FiredCountStep

(* A job queued by scan_and_queue runs the dispatcher for its reminder id. *)
RunScanJob(rid) ==
    /\ running
    /\ scan_jobs[rid] > 0
    /\ scan_jobs' = [scan_jobs EXCEPT ![rid] = @ - 1]
    /\ send_reminder_job(rid)
    /\ UNCHANGED <<now, running, responses_check, timers, user_data, calc>>
    /\ FiredCountStep

(* application.bot.send_message returns (ok) or raises (caught, logged). *)
SendMessageDone(e, ok) ==
    /\ running
    /\ e \in outbox
    /\ outbox' = outbox \ {e}
    /\ last' = Op("send", 0, events[e].reminder_id, IF ok THEN "ok" ELSE "send_failed", 0)
    /\ UNCHANGED <<now, running, responses_check, dbvars, timers, scan_jobs,
                   user_data, fired_count, calc>>

(* --------------------------- scan_and_queue --------------------------- *)
DueRows == {r \in Rows : reminders[r].next_trigger_utc <= now
                         /\ reminders[r].status = "pending"}

ScanAndQueue ==
    /\ running
    /\ \A r \in DueRows : scan_jobs[r] < MaxScanJobs
    /\ scan_jobs' = [r \in ReminderIds |->
                        IF r \in DueRows THEN scan_jobs[r] + 1 ELSE scan_jobs[r]]
    /\ last' = Op("scan", 0, 0, "ok", 0)
    /\ UNCHANGED <<now, running, responses_check, dbvars, timers, user_data,
                   outbox, fired_count, calc>>

(* --------------------------- create_reminder -------------------------- *)
NewReminder(u, p) ==
    [user_id |-> u, next_trigger_utc |-> p.dt, is_recurring |-> IsRecurring(p.recurrence),
     recur_rule |-> p.recurrence, status |-> "pending"]

CreateReminder(u, p) ==
    /\ running
    /\ IF p.error \/ ~p.iso_ok
       THEN /\ last' = Op("message", 0, 0, "refused", 0)
            /\ UNCHANGED <<reminders, timers>>
       ELSE /\ Len(reminders) < MaxReminders
            /\ reminders' = Append(reminders, NewReminder(u, p))
            /\ timers' = schedule_reminder(timers, Len(reminders) + 1, p.dt, now)
            /\ last' = Op("create", u, Len(reminders) + 1, "ok", 0)
    /\ UNCHANGED <<now, running, responses_check, events, responses, scan_jobs,
                   user_data, outbox, fired_count, calc>>

(* --------------------------- delete_reminder -------------------------- *)
(* SELECT * FROM reminders WHERE id=? AND user_id=? AND status='pending' *)
DeleteRowAnyStatus(u, rid) == rid \in Rows /\ reminders[rid].user_id = u

DeleteRow(u, rid) ==
    rid \in Rows /\ reminders[rid].user_id = u /\ reminders[rid].status = "pending"

SetStatusRemoveRow(rid, st) == SubSeq(reminders, 1, rid - 1)

SetStatus(rid, st) == [reminders EXCEPT ![rid].status = st]

(* The message carries a number: lines 308-320. *)
DeleteReminderById(u, rid) ==
    /\ running
    /\ IF DeleteRow(u, rid)
       THEN /\ reminders' = SetStatus(rid, "deleted")
            /\ last' = Op("delete", u, rid, "ok", 0)
       ELSE /\ last' = Op("message", 0, 0, "refused", 0)
            /\ UNCHANGED reminders
    /\ UNCHANGED <<now, running, responses_check, events, responses, timers,
                   scan_jobs, user_data, outbox, fired_count, calc>>

(* The message carries no number: lines 321-335. *)
DeleteReminderByText(u, m) ==
    /\ running
    /\ IF FirstMatch(u, m) # 0
       THEN /\ reminders' = SetStatus(FirstMatch(u, m), "deleted")
            /\ last' = Op("delete", u, FirstMatch(u, m), "ok", 0)
       ELSE /\ last' = Op("message", 0, 0, "refused", 0)
            /\ UNCHANGED reminders
    /\ UNCHANGED <<now, running, responses_check, events, responses, timers,
                   scan_jobs, user_data, outbox, fired_count, calc>>

(* --------------------------- update_reminder -------------------------- *)
(* has_to: the message matches r"\bto (.+)". *)
UpdateReminder(u, m, has_to, p) ==
    /\ running
    /\ IF FirstMatch(u, m) = 0 \/ ~has_to \/ p.error \/ ~p.iso_ok
       THEN /\ last' = Op("message", 0, 0, "refused", 0)
            /\ UNCHANGED <<reminders, timers>>
       ELSE /\ reminders' = [reminders EXCEPT
                                ![FirstMatch(u, m)].next_trigger_utc = p.dt,
                                ![FirstMatch(u, m)].is_recurring = IsRecurring(p.recurrence),
                                ![FirstMatch(u, m)].recur_rule = p.recurrence]
            /\ timers' = schedule_reminder(timers, FirstMatch(u, m), p.dt, now)
            /\ last' = Op("update", u, FirstMatch(u, m), "ok", 0)
    /\ UNCHANGED <<now, running, responses_check, events, responses, scan_jobs,
                   user_data, outbox, calc>>
    /\ FiredCountStep

(* -------------------------- mark_reminder_done ------------------------ *)
MarkReminderDone(u, m) ==
    /\ running
    /\ IF FirstMatch(u, m) # 0
       THEN /\ reminders' = SetStatus(FirstMatch(u, m), "completed")
            /\ last' = Op("mark_done", u, FirstMatch(u, m), "ok", 0)
       ELSE /\ last' = Op("message", 0, 0, "refused", 0)
            /\ UNCHANGED reminders
    /\ UNCHANGED <<now, running, responses_check, events, responses, timers,
                   scan_jobs, user_data, outbox, fired_count, calc>>

(* --------------------------- button_callback -------------------------- *)
Actions == {"did", "didnt", "snooze"}

ButtonRowAnyEvent(eid, rid) ==
    /\ eid \in 1..Len(events)
    /\ rid \in Rows
    /\ reminders[rid].status = "pending"

(* SELECT ... FROM reminders r JOIN events e ON r.id = e.reminder_id        *)
(* WHERE e.id=? AND r.id=? AND r.status='pending'                           *)
ButtonRow(eid, rid) ==
    /\ eid \in 1..Len(events)
    /\ rid \in Rows
    /\ events[eid].reminder_id = rid
    /\ reminders[rid].status = "pending"

ButtonAllowedAnyUser(u, eid, rid) == ButtonRow(eid, rid)

(* if not row or row["user_id"] != user_id: "Not allowed." *)
ButtonAllowed(u, eid, rid) == ButtonRow(eid, rid) /\ reminders[rid].user_id = u

(* The INSERT INTO responses raises IntegrityError when the table carries   *)
(* CHECK(response IN ('did', 'didnt', 'snoozed')) and the value is another. *)
InsertRejected(response) ==
    responses_check /\ response \notin {"did", "didnt", "snoozed"}

ResponseAlwaysDid(eid, u, response) == [event_id |-> eid, user_id |-> u, response |-> "did"]

Response(eid, u, response) == [event_id |-> eid, user_id |-> u, response |-> response]

(* Lines 440-466: did / didnt, after the Response insert. *)
ButtonDid(u, action, eid, rid) ==
    /\ Len(responses) < MaxResponses
    /\ responses' = Append(responses, Response(eid, u, action))
    /\ UNCHANGED user_data
    /\ IF reminders[rid].is_recurring
       THEN LET next_dt == compute_next_occurrence(reminders[rid].next_trigger_utc,
                                                   reminders[rid].recur_rule)
            IN IF next_dt # None
               THEN /\ reminders' = [reminders EXCEPT ![rid].next_trigger_utc = next_dt[1]]
                    /\ timers' = schedule_reminder(timers, rid, next_dt[1], now)
               ELSE /\ reminders' = SetStatus(rid, "completed")
                    /\ UNCHANGED timers
       ELSE /\ reminders' = SetStatus(rid, "completed")
            /\ UNCHANGED timers

(* Lines 467-473: snooze.  The Response insert of this branch is never      *)
(* committed: the connection is closed without commit.                      *)
ButtonSnooze(u, eid, rid) ==
    /\ user_data' = [user_data EXCEPT ![u] = Some([snooze_event_id |-> eid,
                                                   snooze_reminder_id |-> rid])]
    /\ UNCHANGED <<reminders, responses, timers>>

ButtonCallback(u, action, eid, rid) ==
    /\ running
    /\ IF ~ButtonAllowed(u, eid, rid)
       THEN /\ last' = Op("button", u, rid, IF ButtonRow(eid, rid) THEN "not_owner" ELSE "no_row", 0)
            /\ UNCHANGED <<reminders, responses, timers, user_data>>
       ELSE IF InsertRejected(action)
       THEN /\ last' = Op(action, u, rid, "integrity_error", 0)
            /\ UNCHANGED <<reminders, responses, timers, user_data>>
       ELSE /\ last' = Op(action, u, rid, "ok", 0)
            /\ IF action = "snooze"
               THEN ButtonSnooze(u, eid, rid)
               ELSE ButtonDid(u, action, eid, rid)
    /\ UNCHANGED <<now, running, responses_check, events, scan_jobs, outbox, calc>>
    /\ FiredCountStep

(* ---------------------------- handle_snooze --------------------------- *)
HandleSnoozeKeepsState(u, p) ==
    /\ running
    /\ IF user_data[u] = None
       THEN /\ last' = Op("snooze_resolve", 0, 0, "no_state", 0)
            /\ UNCHANGED <<reminders, responses, timers, user_data>>
       ELSE LET eid == user_data[u][1].snooze_event_id
                rid == user_data[u][1].snooze_reminder_id
            IN IF p.error \/ ~p.iso_ok
               THEN /\ last' = Op("snooze_resolve", u, rid, "parse_error", 0)
                    /\ UNCHANGED <<reminders, responses, timers, user_data>>
               ELSE /\ Len(responses) < MaxResponses
                    /\ user_data' = [user_data EXCEPT ![u] = None]
                    /\ responses' = Append(responses, Response(eid, u, "snoozed"))
                    /\ reminders' = [reminders EXCEPT ![rid].next_trigger_utc = p.dt]
                    /\ timers' = schedule_reminder(timers, rid, p.dt, now)
                    /\ last' = Op("snooze_resolve", u, rid, "ok", p.dt)
    /\ UNCHANGED <<now, running, responses_check, events, scan_jobs, outbox, calc>>
    /\ FiredCountStep

HandleSnooze(u, p) ==
    /\ running
    /\ IF user_data[u] = None
       THEN /\ last' = Op("snooze_resolve", 0, 0, "no_state", 0)
            /\ UNCHANGED <<reminders, responses, timers, user_data>>
       ELSE LET eid == user_data[u][1].snooze_event_id
                rid == user_data[u][1].snooze_reminder_id
            IN /\ user_data' = [user_data EXCEPT ![u] = None]
               /\ IF p.error \/ ~p.iso_ok
                  THEN /\ last' = Op("snooze_resolve", u, rid, "parse_error", 0)
                       /\ UNCHANGED <<reminders, responses, timers>>
                  ELSE /\ Len(responses) < MaxResponses
                       /\ responses' = Append(responses, Response(eid, u, "snoozed"))
                       /\ reminders' = [reminders EXCEPT ![rid].next_trigger_utc = p.dt]
                       /\ timers' = schedule_reminder(timers, rid, p.dt, now)
                       /\ last' = Op("snooze_resolve", u, rid, "ok", p.dt)
    /\ UNCHANGED <<now, running, responses_check, events, scan_jobs, outbox, calc>>
    /\ FiredCountStep

(* ------------------------------ Next ---------------------------------- *)
Next ==
    \/ Start
    \/ Crash
    \/ Tick
    \/ \E rid \in ReminderIds : TimerFire(rid)
    \/ \E rid \in ReminderIds : RunScanJob(rid)
    \/ \E e \in 1..MaxEvents, ok \in BOOLEAN : SendMessageDone(e, ok)
    \/ ScanAndQueue
    \/ \E u \in Creators, p \in Parsed : CreateReminder(u, p)
    \/ \E u \in Users, rid \in ReminderIds : DeleteReminderById(u, rid)
    \/ \E u \in Users, m \in Mentions : DeleteReminderByText(u, m)
    \/ \E u \in Users, m \in Mentions, p \in Parsed : UpdateReminder(u, m, TRUE, p)
    \/ \E u \in Users, m \in Mentions : UpdateReminder(u, m, FALSE, ParseError)
    \/ \E u \in Users, m \in Mentions : MarkReminderDone(u, m)
    \/ \E u \in Users, a \in Actions, e \in 1..MaxEvents, rid \in ReminderIds :
          ButtonCallback(u, a, e, rid)
    \/ \E u \in Users, p \in SnoozeParsed : HandleSnooze(u, p)

Spec == Init /\ [][Next]_vars

(* The jobs bot.py's scheduler holds run when due, sends complete, and a     *)
(* stopped process is started again.  main() (bot.py 543-545) starts only    *)
(* the scheduler of bot.py, which holds the one-shot jobs: nothing calls     *)
(* scheduler.start() of scheduler.py, so no run of scan_and_queue is ever    *)
(* promised.                                                                 *)
Fairness ==
    /\ WF_vars(Start)
    /\ \A rid \in ReminderIds : WF_vars(TimerFire(rid))
    /\ \A rid \in ReminderIds : WF_vars(RunScanJob(rid))
    /\ \A e \in 1..MaxEvents : WF_vars(\E ok \in BOOLEAN : SendMessageDone(e, ok))

SpecFair == Spec /\ Fairness

(* ------------- compute_next_occurrence on its own ---------------------- *)
CalcRules == {None, Some(StrEmpty), Some(StrDaily), Some(StrDailyCap), Some(StrDailyUpper),
              Some(StrWeekly), Some(StrWeeklyCap), Some(StrMonthly), Some(StrMonthlyUpper),
              Some(StrHourly), Some(StrYearly), Some(StrNone), Some(StrRRule)}

InitCalc ==
    /\ InitStore
    /\ calc \in {[last_dt |-> t, recur_rule |-> r, result |-> None, done |-> FALSE] :
                    t \in 0..MaxCalcTime, r \in CalcRules}

Compute ==
    /\ ~calc.done
    /\ calc' = [calc EXCEPT !.result = compute_next_occurrence(calc.last_dt, calc.recur_rule),
                            !.done = TRUE]
    /\ UNCHANGED <<now, running, responses_check, dbvars, timers, scan_jobs, user_data,
                   outbox, fired_count, last>>

SpecCalc == InitCalc /\ [][Compute]_vars

(* --------------- button_callback on a store found at start ------------- *)
(* The store outlives the process: a bot that has just been started finds   *)
(* the reminders of earlier runs, of any owner and status, all of them due   *)
(* (so schedule_all_reminders registered no timer), and the Events written   *)
(* for them.  Button presses then arrive with any event id and reminder id.  *)
StoreReminderIds == 1..MaxStoreReminders

StoredReminders ==
    {[user_id |-> u, next_trigger_utc |-> 0, is_recurring |-> IsRecurring(rc),
      recur_rule |-> rc, status |-> st] :
        u \in Users, rc \in Recurrences, st \in {"pending", "completed", "deleted"}}

InitButtons ==
    /\ now = 0
    /\ running = TRUE
    /\ responses_check \in BOOLEAN
    /\ reminders \in [StoreReminderIds -> StoredReminders]
    /\ events \in [1..MaxEvents -> [reminder_id : StoreReminderIds]]
    /\ responses = << >>
    /\ timers = [r \in StoreReminderIds |-> None]
    /\ scan_jobs = [r \in StoreReminderIds |-> 0]
    /\ user_data = NoUserData
    /\ outbox = {}
    /\ fired_count = [r \in ReminderIds |-> 0]
    /\ last = NoOp
    /\ calc = NoCalc

NextButtons ==
    \E u \in Users, a \in Actions, e \in 1..MaxEvents, rid \in StoreReminderIds :
        ButtonCallback(u, a, e, rid)

SpecButtons == InitButtons /\ [][NextButtons]_vars

(* ====================================================================== *)
(* Properties                                                             *)
(* ====================================================================== *)
Terminal == {"completed", "deleted"}
Dispatched(r) == last.op = "dispatch" /\ last.res = "ok" /\ last.rid = r

(* C1: two dispatch attempts for the same reminder id and the same trigger  *)
(* instant (the one-shot timer job and a job queued by the scan) write      *)
(* exactly one Event: no reminder has more than one Event written for it    *)
(* while its trigger instant stayed the same.                               *)
C1_OneEventPerTrigger == \A r \in ReminderIds : fired_count[r] <= 1

(* C2: once a pending non-recurring reminder has been dispatched its status *)
(* is completed, and a later dispatch attempt for it writes no further      *)
(* Event.                                                                   *)
C2_DispatchCompletes ==
    \A r \in Rows :
        /\ (Dispatched(r) /\ ~reminders[r].is_recurring) => reminders[r].status = "completed"
        /\ ~reminders[r].is_recurring => fired_count[r] <= 1

(* C3: an Event is only ever written for a reminder that is pending, and a  *)
(* dispatch of a reminder that is absent, completed or deleted writes no    *)
(* Event, starts no notification and leaves the reminders unchanged.        *)
C3_StaleDispatchNoOp ==
    [][/\ Len(events') > Len(events) =>
            /\ events'[Len(events')].reminder_id \in Rows
            /\ reminders[events'[Len(events')].reminder_id].status = "pending"
       /\ (last'.op = "dispatch"
             /\ (last'.rid \notin Rows \/ reminders[last'.rid].status # "pending"))
          => UNCHANGED <<reminders, events, responses, outbox>>]_vars

(* C3 witness: the timer of a reminder deleted in the meantime has fired.   *)
C3_Witness ==
    /\ last.op = "dispatch"
    /\ last.res = "no_row"
    /\ last.rid \in Rows
    /\ reminders[last.rid].status = "deleted"
    /\ events = << >>

(* C4: completed and deleted are terminal: no step changes the status of a  *)
(* reminder that is completed or deleted.                                   *)
C4_TerminalStatus ==
    [][\A r \in Rows :
          reminders[r].status \in Terminal =>
              /\ r \in 1..Len(reminders')
              /\ reminders'[r].status = reminders[r].status]_vars

(* C4 witness: a snooze-resolve has just rewritten the trigger instant of a *)
(* reminder that was completed while the snooze was awaited.                *)
C4_Witness ==
    /\ last.op = "snooze_resolve"
    /\ last.res = "ok"
    /\ last.rid \in Rows
    /\ reminders[last.rid].status = "completed"
    /\ reminders[last.rid].next_trigger_utc = last.dt

(* C5: each dispatch of a pending recurring reminder with rule daily moves  *)
(* its stored trigger instant one day on from the stored value and leaves   *)
(* it pending (so N dispatches give T + N days).                            *)
C5_DailyAdvance ==
    [][\A r \in Rows :
          (/\ last'.op = "dispatch" /\ last'.res = "ok" /\ last'.rid = r
           /\ reminders[r].is_recurring
           /\ reminders[r].recur_rule = Some(StrDaily))
          => /\ reminders'[r].next_trigger_utc = reminders[r].next_trigger_utc + MinutesPerDay
             /\ reminders'[r].status = "pending"]_vars

(* C6: a did or didnt response to an Event of a recurring reminder logs a   *)
(* Response and leaves the reminder's trigger instant and status unchanged. *)
C6_ResponseKeepsSchedule ==
    [][\A r \in Rows :
          (/\ last'.op \in {"did", "didnt"} /\ last'.res = "ok" /\ last'.rid = r
           /\ reminders[r].is_recurring)
          => /\ Len(responses') = Len(responses) + 1
             /\ reminders'[r].next_trigger_utc = reminders[r].next_trigger_utc
             /\ reminders'[r].status = reminders[r].status]_vars

(* C7 as stated: the calculator returns last + 1 day for daily, + 7 days   *)
(* for weekly, + 30 days for monthly, and no next occurrence for a null     *)
(* rule and for every other rule value.                                     *)
C7_CalculatorExact ==
    calc.done =>
        IF calc.recur_rule = Some(StrDaily)
        THEN calc.result = Some(calc.last_dt + 1440)
        ELSE IF calc.recur_rule = Some(StrWeekly)
        THEN calc.result = Some(calc.last_dt + 7 * 1440)
        ELSE IF calc.recur_rule = Some(StrMonthly)
        THEN calc.result = Some(calc.last_dt + 30 * 1440)
        ELSE calc.result = None

DailySpellings == {Some(StrDaily), Some(StrDailyCap), Some(StrDailyUpper)}
WeeklySpellings == {Some(StrWeekly), Some(StrWeeklyCap)}
MonthlySpellings == {Some(StrMonthly), Some(StrMonthlyUpper)}

(* C7 amended: the rule is compared without regard to letter case: daily,   *)
(* weekly and monthly in any case give last + 1, + 7 and + 30 days; a null  *)
(* or empty rule and every rule that is none of the three in any case give  *)
(* no next occurrence.                                                      *)
C7_CalculatorCaseInsensitive ==
    calc.done =>
        IF calc.recur_rule \in DailySpellings
        THEN calc.result = Some(calc.last_dt + 1440)
        ELSE IF calc.recur_rule \in WeeklySpellings
        THEN calc.result = Some(calc.last_dt + 7 * 1440)
        ELSE IF calc.recur_rule \in MonthlySpellings
        THEN calc.result = Some(calc.last_dt + 30 * 1440)
        ELSE calc.result = None

(* C7 witness: a monthly rule in capitals has been advanced by 30 days.     *)
C7_Witness ==
    /\ calc.done
    /\ calc.recur_rule = Some(StrMonthlyUpper)
    /\ calc.last_dt = 1
    /\ calc.result = Some(43201)

C9_OutOfRangeRejected ==
    [][(/\ last'.op = "snooze_resolve" /\ last'.res = "ok"
        /\ last'.dt - now \notin 1..MinutesPerDay)
       => UNCHANGED <<reminders, timers>>]_vars

(* C10: a button press or a snooze-resolve by a user who does not own the   *)
(* reminder writes no Response, changes no Reminder, registers no timer and *)
(* records no awaited snooze; the awaited snooze of a user is always for a  *)
(* reminder that user owns, and a snooze-resolve of a user with none        *)
(* awaited changes nothing.                                                 *)
C10_NonOwnerRejected ==
    /\ [](\A u \in Users :
            user_data[u] # None =>
                reminders[user_data[u][1].snooze_reminder_id].user_id = u)
    /\ [][/\ (/\ last'.op \in {"button", "did", "didnt", "snooze", "snooze_resolve"}
              /\ last'.rid \in Rows
              /\ reminders[last'.rid].user_id # last'.user)
             => UNCHANGED <<reminders, responses, timers, user_data>>
          /\ (last'.op = "snooze_resolve" /\ last'.res = "no_state")
             => UNCHANGED <<reminders, responses, timers, user_data>>]_vars

(* C10 witness: a user who does not own the reminder pressed a button of    *)
(* one of its Events while it was pending, and was refused.                 *)
C10_Witness ==
    /\ last.op = "button"
    /\ last.res = "not_owner"
    /\ last.rid \in Rows
    /\ reminders[last.rid].user_id # last.user
    /\ reminders[last.rid].status = "pending"

(* C11: when the send of a dispatch fails, the Event of that dispatch stays  *)
(* recorded, nothing is queued or registered to send it again, and the       *)
(* reminder of the Event has been advanced or completed as after a send      *)
(* that succeeded: it is not still pending at the trigger instant the Event  *)
(* was written for.                                                          *)
C11_SendFailureKeepsSchedule ==
    [][(last'.op = "send" /\ last'.res = "send_failed")
       => /\ UNCHANGED <<events, timers, scan_jobs>>
          /\ \E e \in 1..Len(events') : events'[e].reminder_id = last'.rid
          /\ \/ reminders'[last'.rid].status # "pending"
             \/ fired_count'[last'.rid] = 0]_vars

(* C12: right after the process has started, every pending reminder that is *)
(* not yet due or became due no more than one minute ago (inside the grace  *)
(* window) has a one-shot timer, and no reminder that is not pending has    *)
(* one.                                                                     *)
C12_RecoveryWithinGrace ==
    last.op = "start" =>
        \A r \in Rows :
            /\ (reminders[r].status = "pending"
                  /\ reminders[r].next_trigger_utc >= now - 1) => timers[r] # None
            /\ reminders[r].status # "pending" => timers[r] = None

(* C13: a reminder that is pending and due, with no Event written for its   *)
(* trigger instant yet, eventually has one (or stops being pending and due  *)
(* by a user's request).                                                    *)
PendingDue(r) ==
    /\ r \in Rows
    /\ reminders[r].status = "pending"
    /\ reminders[r].next_trigger_utc <= now

C13_DueEventuallyDispatched ==
    \A r \in ReminderIds :
        (PendingDue(r) /\ fired_count[r] = 0) ~> (~PendingDue(r) \/ fired_count[r] >= 1)

(* C14: a scan tick queues no dispatch for a reminder that already has an   *)
(* Event written for its current trigger instant, nor for one whose         *)
(* dispatch for that instant is already queued.                             *)
C14_ScanOncePerTrigger ==
    [][last'.op = "scan"
       => \A r \in ReminderIds :
             (fired_count[r] >= 1 \/ scan_jobs[r] >= 1) => scan_jobs'[r] = scan_jobs[r]]_vars

(* C15: a did or didnt press by the owner on an Event of a pending          *)
(* non-recurring reminder appends one Response of that user for that Event  *)
(* with the action pressed, sets the reminder completed and leaves its      *)
(* trigger instant as it was.                                               *)
C15_DidCompletesOneShot ==
    [][\A r \in Rows :
          (/\ last'.op \in {"did", "didnt"} /\ last'.res = "ok" /\ last'.rid = r
           /\ ~reminders[r].is_recurring)
          => /\ Len(responses') = Len(responses) + 1
             /\ SubSeq(responses', 1, Len(responses)) = responses
             /\ responses'[Len(responses')].response = last'.op
             /\ responses'[Len(responses')].user_id = last'.user
             /\ reminders[r].user_id = last'.user
             /\ reminders[r].status = "pending"
             /\ events[responses'[Len(responses')].event_id].reminder_id = r
             /\ reminders'[r].status = "completed"
             /\ reminders'[r].next_trigger_utc = reminders[r].next_trigger_utc]_vars

(* C15 witness: the owner answered didnt on a one-shot reminder, which is   *)
(* now completed with that answer logged.                                   *)
C15_Witness ==
    /\ last.op = "didnt" /\ last.res = "ok"
    /\ ~reminders[last.rid].is_recurring
    /\ reminders[last.rid].status = "completed"
    /\ Len(responses) > 0
    /\ responses[Len(responses)].response = "didnt"

(* C16: a snooze press by the owner on an Event of a pending reminder       *)
(* succeeds: it leaves the reminders as they are and records for that user  *)
(* that a snooze duration is awaited for that Event and reminder.           *)
C16_SnoozeRequestRecorded ==
    [][last'.op = "snooze"
       => /\ last'.res = "ok"
          /\ UNCHANGED reminders
          /\ user_data'[last'.user] # None
          /\ user_data'[last'.user][1].snooze_reminder_id = last'.rid]_vars

(* C17: a create or update that is accepted stores a trigger instant that   *)
(* is not in the past, a created reminder starts pending, and a request     *)
(* that is refused changes no reminder and no timer.                        *)
C17_PastDatedRejected ==
    [][/\ (last'.op \in {"create", "update"} /\ last'.res = "ok")
          => reminders'[last'.rid].next_trigger_utc >= now
       /\ (last'.op = "create" /\ last'.res = "ok")
          => reminders'[last'.rid].status = "pending"
       /\ (last'.op = "message") => UNCHANGED <<reminders, timers>>]_vars

(* C18: no step removes a Reminder row or changes the owner of one, a       *)
(* delete only sets the status of its row to deleted, and the Event and     *)
(* Response rows already written stay as they are.                          *)
C18_AppendOnly ==
    [][/\ Len(reminders') >= Len(reminders)
       /\ \A r \in Rows : reminders'[r].user_id = reminders[r].user_id
       /\ last'.op = "delete"
            => reminders' = [reminders EXCEPT ![last'.rid].status = "deleted"]
       /\ Len(events') >= Len(events)
       /\ SubSeq(events', 1, Len(events)) = events
       /\ Len(responses') >= Len(responses)
       /\ SubSeq(responses', 1, Len(responses)) = responses]_vars

(* C18 witness: a reminder that has fired and been answered was deleted:    *)
(* its row, its Event and the Response are all still stored.                *)
C18_Witness ==
    /\ last.op = "delete"
    /\ last.rid \in Rows
    /\ reminders[last.rid].status = "deleted"
    /\ \E e \in 1..Len(events) : events[e].reminder_id = last.rid
    /\ Len(responses) > 0

(* C19: whenever the process is down, no reminder is pending at a trigger   *)
(* instant for which an Event has been written: the Event and the advance   *)
(* or completion of its reminder are stored together or not at all.         *)
C19_DispatchAtomic ==
    ~running =>
        \A r \in Rows : ~(reminders[r].status = "pending" /\ fired_count[r] >= 1)

(* C20: every stored reminder with is_recurring true has a rule that is     *)
(* one of daily, weekly, monthly.                                           *)
SupportedRules == {Some(StrDaily), Some(StrWeekly), Some(StrMonthly)}

C20_RecurringRuleSupported ==
    \A r \in Rows : reminders[r].is_recurring => reminders[r].recur_rule \in SupportedRules

(* C21: a reminder id has at most one one-shot timer, and the timer of a    *)
(* pending reminder stands at the reminder's current trigger instant: a     *)
(* reschedule has replaced the timer registered for the instant before.     *)
C21_TimerAtCurrentTrigger ==
    \A r \in Rows :
        (reminders[r].status = "pending" /\ timers[r] # None)
        => /\ Len(timers[r]) = 1
           /\ timers[r][1] = reminders[r].next_trigger_utc

(* C22: a button press writes a Response or changes a reminder only when    *)
(* the reminder id it carries is that of a pending reminder and the event   *)
(* id it carries is that of an Event of this reminder; then it changes      *)
(* this reminder alone.  A press that is refused writes nothing.            *)
ButtonOps == {"button", "did", "didnt", "snooze"}

C22_StaleButtonRefused ==
    [][last'.op \in ButtonOps =>
         /\ last'.op = "button" => UNCHANGED <<reminders, responses, timers, user_data>>
         /\ (responses' # responses \/ reminders' # reminders \/ user_data' # user_data)
            => /\ last'.rid \in Rows
               /\ reminders[last'.rid].status = "pending"
               /\ \A r \in Rows : r # last'.rid => reminders'[r] = reminders[r]
         /\ Len(responses') > Len(responses)
            => /\ responses'[Len(responses')].event_id \in 1..Len(events)
               /\ events[responses'[Len(responses')].event_id].reminder_id = last'.rid
         /\ user_data' # user_data
            => /\ user_data'[last'.user][1].snooze_event_id \in 1..Len(events)
               /\ events[user_data'[last'.user][1].snooze_event_id].reminder_id = last'.rid]_vars

(* C22 witness: the owner of a pending reminder pressed a button that       *)
(* carried the reminder's id with the id of an Event of another reminder    *)
(* (every Event stored belongs to another one), and was refused.            *)
C22_Witness ==
    /\ last.op = "button" /\ last.res = "no_row"
    /\ last.rid \in Rows
    /\ reminders[last.rid].status = "pending"
    /\ reminders[last.rid].user_id = last.user
    /\ Len(events) = MaxEvents
    /\ \A e \in 1..Len(events) : events[e].reminder_id # last.rid
    /\ responses = << >>

(* C23: a snooze-resolve that finds an awaited snooze of its user clears    *)
(* it, whether the reply parses or not, and a reply that does not parse     *)
(* changes no reminder, Response or timer; a snooze-resolve changes a       *)
(* reminder or writes a Response only by consuming the awaited snooze of    *)
(* a user for that reminder, so one request reschedules at most once and a  *)
(* resolve with nothing awaited changes nothing.                            *)
C23_SnoozeStateConsumed ==
    [][last'.op = "snooze_resolve" =>
         /\ last'.res \in {"ok", "parse_error"}
            => /\ user_data[last'.user] # None
               /\ user_data[last'.user][1].snooze_reminder_id = last'.rid
               /\ user_data'[last'.user] = None
         /\ last'.res = "parse_error" => UNCHANGED <<reminders, responses, timers>>
         /\ (reminders' # reminders \/ responses' # responses \/ timers' # timers)
            => \E u \in Users :
                  /\ user_data[u] # None
                  /\ user_data'[u] = None
                  /\ \A r \in Rows :
                        r # user_data[u][1].snooze_reminder_id => reminders'[r] = reminders[r]
         /\ (\A u \in Users : user_data[u] = None)
            => UNCHANGED <<reminders, responses, timers, user_data>>]_vars

(* C23 witness: the reply to a snooze request did not parse: the awaited    *)
(* snooze is gone and the reminder is as it was, pending and unanswered.    *)
C23_Witness ==
    /\ last.op = "snooze_resolve" /\ last.res = "parse_error"
    /\ last.user \in Users
    /\ user_data[last.user] = None
    /\ last.rid \in Rows
    /\ reminders[last.rid].status = "pending"
    /\ responses = << >>

====
